---- MODULE Spec2Model ----
(***************************************************************************)
(* A model of the Villa_Dashboard Streamlit script (src/main.py): the      *)
(* cached loader load_data, the sidebar widgets, the filter mask, the m2   *)
(* dtype coercion and the aggregations of the three tabs, executed top to  *)
(* bottom on every script rerun.                                           *)
(*                                                                         *)
(* Numbers of the data (amounts, areas) are kept in tenths: the text       *)
(* "1,000.5" is the integer 10005.  np.nan is the integer NaN (all real    *)
(* quantities of the data are non-negative), a missing text value is NA.   *)
(* A calendar date is the integer yyyymmdd, a Year-Month key is yyyymm.    *)
(***************************************************************************)
EXTENDS Integers, Sequences, FiniteSets, TLC

\* ------------------------------------------------------------------ bounds
\* The largest number of rows of data.csv.
MaxRows == 3
\* The largest number of times the body of load_data is run.
MaxParses == 2

\* ------------------------------------------------------- values and text
NaN == -1
NA == "nan"
DefaultMinDate == 20220101

Digits == {"0", "1", "2", "3", "4", "5", "6", "7", "8", "9"}

DigitVal(c) ==
    CASE c = "0" -> 0 [] c = "1" -> 1 [] c = "2" -> 2 [] c = "3" -> 3
      [] c = "4" -> 4 [] c = "5" -> 5 [] c = "6" -> 6 [] c = "7" -> 7
      [] c = "8" -> 8 [] c = "9" -> 9

RECURSIVE SumSeq(_)
SumSeq(s) == IF s = <<>> THEN 0 ELSE Head(s) + SumSeq(Tail(s))

RECURSIVE DigitsValue(_)
\* The integer a sequence of digits writes.
DigitsValue(s) ==
    IF s = <<>> THEN 0
    ELSE DigitsValue(SubSeq(s, 1, Len(s) - 1)) * 10 + DigitVal(s[Len(s)])

\* Series.str.replace(',', '') on one text cell.
StripCommas(s) == SelectSeq(s, LAMBDA c : c # ",")

DotAt(s) == IF \E i \in 1..Len(s) : s[i] = "."
            THEN CHOOSE i \in 1..Len(s) : s[i] = "."
            ELSE 0

\* Whether Python's float() (and pandas' numeric inference) accepts the text:
\* digits with at most one decimal point and at least one digit.
IsNumeric(s) ==
    /\ \A i \in 1..Len(s) : s[i] \in Digits \cup {"."}
    /\ Cardinality({i \in 1..Len(s) : s[i] = "."}) <= 1
    /\ \E i \in 1..Len(s) : s[i] \in Digits

\* Whether the text writes an integer (no decimal point).
IsIntegerText(s) == IsNumeric(s) /\ DotAt(s) = 0

\* The value of a numeric text, in tenths (the data carry at most one decimal).
ParseFloat(s) ==
    LET d == DotAt(s)
        ip == IF d = 0 THEN s ELSE SubSeq(s, 1, d - 1)
        fp == IF d = 0 \/ d = Len(s) THEN <<>> ELSE SubSeq(s, d + 1, d + 1)
    IN DigitsValue(ip) * 10 + DigitsValue(fp)

\* Python's int() of a non-negative float given in tenths: truncation; whole units.
IntOf(x) == x \div 10

\* pd.to_datetime(..., dayfirst=True) of a cell <<dd, mm, yyyy>>.
ToDatetime(c) == c[3] * 10000 + c[2] * 100 + c[1]

\* Series.dt.strftime('%Y-%m') of a date.
StrftimeYM(d) == d \div 100

\* ---------------------------------------------------------------- input
\* The rows data.csv is drawn from.  A text cell is a sequence of characters,
\* an empty cell is <<>>.
RowPool ==
    << [unit |-> "U1", project |-> "A", date |-> <<20, 12, 2021>>,
        amount |-> <<"1", ",", "0", "0", "0">>, m2 |-> <<"2", ",", "5", "0", "0">>,
        tc |-> <<"5", "0">>, bedrooms |-> "2", segment |-> "Lux", lat |-> 34, lon |-> 32],
       [unit |-> "U2", project |-> "A", date |-> <<5, 1, 2022>>,
        amount |-> <<"1", ",", "0", "0", "0", ".", "5">>, m2 |-> <<>>,
        tc |-> <<>>, bedrooms |-> "Studio", segment |-> "Lux", lat |-> 34, lon |-> 32],
       [unit |-> NA, project |-> "B", date |-> <<20, 1, 2022>>,
        amount |-> <<"1", ",", "0", "0", "1", ".", "5">>, m2 |-> <<"3", ",", "0", "0", "0">>,
        tc |-> <<"1", "0", "0">>, bedrooms |-> NA, segment |-> "Mid", lat |-> 35, lon |-> 33],
       [unit |-> "U4", project |-> "B", date |-> <<10, 2, 2022>>,
        amount |-> <<"1", ",", "0", "0", "2">>, m2 |-> <<"x">>,
        tc |-> <<"0">>, bedrooms |-> "2", segment |-> "Mid", lat |-> NaN, lon |-> NaN],
       [unit |-> "U5", project |-> "A", date |-> <<20, 1, 2022>>,
        amount |-> <<"1", "0", "0", "2">>, m2 |-> <<"2", ",", "5", "0", "0">>,
        tc |-> <<"5", "0">>, bedrooms |-> "2", segment |-> "Lux", lat |-> 34, lon |-> 32],
       [unit |-> "U6", project |-> "B", date |-> <<5, 1, 2022>>,
        amount |-> <<>>, m2 |-> <<"2", ",", "5", "0", "0">>,
        tc |-> <<"1", "0", "0">>, bedrooms |-> "Studio", segment |-> "Mid", lat |-> 35, lon |-> 33],
       [unit |-> "U7", project |-> "A", date |-> <<10, 2, 2022>>,
        amount |-> <<"x">>, m2 |-> <<"1", "0", "0", "0">>,
        tc |-> <<"5", "0">>, bedrooms |-> "2", segment |-> "Lux", lat |-> 34, lon |-> 32] >>

RECURSIVE PickRows(_, _)
\* The rows of the pool at the (increasing) positions of the set S, in order.
PickRows(S, from) ==
    IF from > Len(RowPool) THEN <<>>
    ELSE IF from \in S THEN <<RowPool[from]>> \o PickRows(S, from + 1)
    ELSE PickRows(S, from + 1)

\* Every file of 1..MaxRows rows.
CsvFiles ==
    { PickRows(S, 1) : S \in { X \in SUBSET (1..Len(RowPool)) :
                                 Cardinality(X) \in 1..MaxRows } }

\* --------------------------------------------------------------- helpers
Range(s) == { s[i] : i \in 1..Len(s) }

RECURSIVE SortedSeq(_)
\* The integers of a finite set in ascending order.
SortedSeq(S) ==
    IF S = {} THEN <<>>
    ELSE LET m == CHOOSE x \in S : \A y \in S : x <= y
         IN <<m>> \o SortedSeq(S \ {m})

\* Series.min() / Series.max(): NaN is skipped.
SeriesMin(s) == LET V == Range(s) \ {NaN} IN CHOOSE x \in V : \A y \in V : x <= y
SeriesMax(s) == LET V == Range(s) \ {NaN} IN CHOOSE x \in V : \A y \in V : x >= y

Column(rows, f) == [i \in 1..Len(rows) |-> rows[i][f]]

\* A comparison of a float series with a number: False where the value is NaN.
Ge(x, y) == x # NaN /\ x >= y
Le(x, y) == x # NaN /\ x <= y
\* Series == value on a text column: False where the value is missing.
EqText(x, y) == x # NA /\ x = y

\* ----------------------------------------------------------- load_data
NoData == [rows |-> <<>>, m2dtype |-> "none"]

\* pd.read_csv's inference for a column: it stays text (object) when some
\* non-empty cell is not a plain number, else it is read as numbers.
IsObjectColumn(cells) ==
    \E i \in 1..Len(cells) : cells[i] # <<>> /\ ~IsNumeric(cells[i])

\* pd.to_numeric(..., errors='coerce') of one stripped cell; an empty cell is NaN.
ToNumericCoerce(c) ==
    IF c = <<>> THEN NaN
    ELSE IF IsNumeric(StripCommas(c)) THEN ParseFloat(StripCommas(c)) ELSE NaN

\* The dtype pd.to_numeric gives the column: int64 when every cell writes an
\* integer, float64 as soon as one is NaN or has a decimal point.
ToNumericDtype(cells) ==
    IF \A i \in 1..Len(cells) :
           cells[i] # <<>> /\ IsIntegerText(StripCommas(cells[i]))
    THEN "int64" ELSE "float64"

\* Whether .astype(float) raises ValueError on the stripped text column.
AstypeFloatFails(cells) ==
    \E i \in 1..Len(cells) : cells[i] # <<>> /\ ~IsNumeric(StripCommas(cells[i]))

\* .astype(float) of one stripped cell of a text column; NaN stays NaN.
AstypeFloat(c) == IF c = <<>> THEN NaN ELSE ParseFloat(StripCommas(c))

\* A numeric column as read_csv reads it (empty cell: NaN), then fillna(0).
FillNa0(c) == IF c = <<>> THEN 0 ELSE ParseFloat(c)

\* The body of load_data on the file: the exception it raises ("none" when it
\* returns) and the dataset it returns.
LoadData(file) ==
    LET m2cells == Column(file, "m2")
        amtcells == Column(file, "amount")
        row(i) ==
            LET r == file[i]
                d == ToDatetime(r.date)
            IN [idx |-> i, unit |-> r.unit, project |-> r.project, date |-> d,
                m2 |-> ToNumericCoerce(r.m2), amount |-> AstypeFloat(r.amount),
                tc |-> FillNa0(r.tc), bedrooms |-> r.bedrooms,
                segment |-> r.segment, lat |-> r.lat, lon |-> r.lon,
                ym |-> StrftimeYM(d)]
    IN IF ~IsObjectColumn(m2cells)
       THEN [error |-> "AttributeError", value |-> NoData]
       ELSE IF ~IsObjectColumn(amtcells)
       THEN [error |-> "AttributeError", value |-> NoData]
       ELSE IF AstypeFloatFails(amtcells)
       THEN [error |-> "ValueError", value |-> NoData]
       ELSE [error |-> "none",
             value |-> [rows |-> [i \in 1..Len(file) |-> row(i)],
                        m2dtype |-> ToNumericDtype(m2cells)]]

\* A cache that never answers.
CacheNeverHit(c) == FALSE

\* st.cache_data: whether the call is answered from the cache.
CacheHit(c) == c # <<>>

\* ------------------------------------------------------------- sidebar
MaxOf(a, b) == IF a >= b THEN a ELSE b

MinDateDataset(d) == SeriesMin(Column(d.rows, "date"))
MaxDate(d) == SeriesMax(Column(d.rows, "date"))
\* The later of the dataset's first date and 1 January 2022.
DefaultStartDate(d) == MaxOf(MinDateDataset(d), DefaultMinDate)

MinPrice(d) == IntOf(SeriesMin(Column(d.rows, "amount")))
MaxPrice(d) == IntOf(SeriesMax(Column(d.rows, "amount")))

Projects(d) == {"All"} \cup Range(Column(d.rows, "project"))
Bedrooms(d) == {"All"} \cup (Range(Column(d.rows, "bedrooms")) \ {NA})
Segments(d) == {"All"} \cup Range(Column(d.rows, "segment"))

\* st.date_input raises when its default value lies outside [min_value, max_value].
DateInputRaises(d) ==
    DefaultStartDate(d) < MinDateDataset(d) \/ DefaultStartDate(d) > MaxDate(d)

NoWidgets ==
    [set |-> FALSE, start |-> 0, end |-> 0, project |-> "All", bedrooms |-> "All",
     lo |-> 0, hi |-> 0, segment |-> "All"]

\* The value every widget has on the session's first run.
DefaultWidgets(d) ==
    [set |-> TRUE, start |-> DefaultStartDate(d), end |-> MaxDate(d),
     project |-> "All", bedrooms |-> "All",
     lo |-> MinPrice(d), hi |-> MaxPrice(d), segment |-> "All"]

\* The dates a picker is set to: the pickers allow every day from the first to
\* the last date of the dataset; the days that tell two filters apart are the
\* dataset's own and the default.
DateChoices(d) ==
    { x \in Range(Column(d.rows, "date")) \cup {DefaultStartDate(d)} :
        MinDateDataset(d) <= x /\ x <= MaxDate(d) }

\* What one interaction of the user turns the widgets into: one widget changes.
UserChanges(d, w) ==
    { [w EXCEPT !.start = x] : x \in DateChoices(d) }
    \cup { [w EXCEPT !.end = x] : x \in DateChoices(d) }
    \cup { [w EXCEPT !.project = x] : x \in Projects(d) }
    \cup { [w EXCEPT !.bedrooms = x] : x \in Bedrooms(d) }
    \cup { [w EXCEPT !.segment = x] : x \in Segments(d) }
    \cup { [w EXCEPT !.lo = p[1], !.hi = p[2]] :
             p \in { q \in (MinPrice(d)..MaxPrice(d)) \X (MinPrice(d)..MaxPrice(d)) :
                       q[1] <= q[2] } }

\* -------------------------------------------------------------- filter
\* A mask whose upper price comparison is strict.
PriceHighStrict(amount, hi) == amount # NaN /\ amount < hi * 10

\* The lower and upper price comparisons of the mask (amounts are in tenths,
\* the slider's values whole).
PriceLowOk(amount, lo) == Ge(amount, lo * 10)
PriceHighOk(amount, hi) == Le(amount, hi * 10)

\* filter_conditions: the four range comparisons, then one &= per criterion
\* that is not "All".
FilterConditions(d, c) ==
    LET n == Len(d.rows)
        m0 == [i \in 1..n |->
                 /\ d.rows[i].date >= c.start
                 /\ d.rows[i].date <= c.end
                 /\ PriceLowOk(d.rows[i].amount, c.lo)
                 /\ PriceHighOk(d.rows[i].amount, c.hi)]
        m1 == IF c.project # "All"
              THEN [i \in 1..n |-> m0[i] /\ EqText(d.rows[i].project, c.project)]
              ELSE m0
        m2 == IF c.bedrooms # "All"
              THEN [i \in 1..n |-> m1[i] /\ EqText(d.rows[i].bedrooms, c.bedrooms)]
              ELSE m1
        m3 == IF c.segment # "All"
              THEN [i \in 1..n |-> m2[i] /\ EqText(d.rows[i].segment, c.segment)]
              ELSE m2
    IN m3

RECURSIVE TakeMask(_, _, _)
\* rows[mask]: a new table of the rows whose mask is True, in order.
TakeMask(rows, mask, from) ==
    IF from > Len(rows) THEN <<>>
    ELSE IF mask[from] THEN <<rows[from]>> \o TakeMask(rows, mask, from + 1)
    ELSE TakeMask(rows, mask, from + 1)

\* data[filter_conditions]
FilteredData(d, c) ==
    [rows |-> TakeMask(d.rows, FilterConditions(d, c), 1), m2dtype |-> d.m2dtype]

\* The m2 coercion of the filtered table: a numeric column becomes float64.
CoerceM2(f) ==
    IF f.m2dtype \in {"int64", "float64"}
    THEN [f EXCEPT !.m2dtype = "float64"]
    ELSE f

\* --------------------------------------------------------- aggregation
\* A mean is kept as the fraction sum / count; a mean of nothing is 0/0, NaN.
Frac(n, d) == [n |-> n, d |-> d]
NaNFrac == Frac(0, 0)
IsNaNFrac(q) == q.n = 0 /\ q.d = 0

\* The non-missing values of a column of the rows, in order.
Valid(rows, f) == SelectSeq(Column(rows, f), LAMBDA v : v # NaN)

\* A mean that counts a missing value as 0.
AggMeanZeroFill(rows, f) == Frac(SumSeq(Valid(rows, f)), Len(rows))

\* GroupBy sum / count / mean of a float column: missing values are skipped.
AggSum(rows, f) == SumSeq(Valid(rows, f))
AggCount(rows, f) == Len(Valid(rows, f))
AggMean(rows, f) == Frac(AggSum(rows, f), AggCount(rows, f))

\* GroupBy count of the Unit ID column: the cells that are not missing.
CountUnits(rows) == Len(SelectSeq(rows, LAMBDA r : r.unit # NA))

NoView == [status |-> "none", rows |-> <<>>]
Warning == [status |-> "warning", rows |-> <<>>]

RECURSIVE InsertAsc(_, _)
InsertAsc(x, s) ==
    IF s = <<>> THEN <<x>>
    ELSE IF x.ym < Head(s).ym THEN <<x>> \o s
    ELSE <<Head(s)>> \o InsertAsc(x, Tail(s))

RECURSIVE SortByYearMonth(_)
\* sort_values('Year-Month'): ascending.
SortByYearMonth(s) ==
    IF s = <<>> THEN <<>> ELSE InsertAsc(Head(s), SortByYearMonth(Tail(s)))

\* monthly_sales: one row per Year-Month (the groups come in key order), the
\* sum of Contract Amount and the count of Unit ID, sorted by Year-Month.
MonthlySales(rows) ==
    LET keys == SortedSeq(Range(Column(rows, "ym")))
        grp(k) == SelectSeq(rows, LAMBDA r : r.ym = k)
    IN SortByYearMonth(
         [i \in 1..Len(keys) |->
            [ym |-> keys[i], amount |-> AggSum(grp(keys[i]), "amount"),
             units |-> CountUnits(grp(keys[i]))]])

\* A timeline block without the check for an empty subset.
MonthlySalesViewUnguarded(f) == [status |-> "chart", rows |-> MonthlySales(f.rows)]

\* The timeline block of tab1.
MonthlySalesView(f) ==
    IF f.rows = <<>> THEN Warning
    ELSE [status |-> "chart", rows |-> MonthlySales(f.rows)]

\* The label of the first row holding the largest (smallest) m2: idxmax, idxmin.
IdxMax(rows) ==
    LET i == CHOOSE i \in 1..Len(rows) :
                 /\ \A j \in 1..Len(rows) : rows[j].m2 <= rows[i].m2
                 /\ \A j \in 1..(i - 1) : rows[j].m2 < rows[i].m2
    IN rows[i].idx
IdxMin(rows) ==
    LET i == CHOOSE i \in 1..Len(rows) :
                 /\ \A j \in 1..Len(rows) : rows[j].m2 >= rows[i].m2
                 /\ \A j \in 1..(i - 1) : rows[j].m2 > rows[i].m2
    IN rows[i].idx

\* filtered_data.dropna(subset=['m2'])
ValidData(rows) == SelectSeq(rows, LAMBDA r : r.m2 # NaN)

NoStats == [status |-> "none", highest |-> 0, lowest |-> 0, mean |-> NaNFrac]

\* The price-per-m2 statistics block of tab2.
PriceStats(f) ==
    IF f.rows = <<>> THEN [NoStats EXCEPT !.status = "warning"]
    ELSE LET valid == ValidData(f.rows)
         IN IF valid = <<>> THEN [NoStats EXCEPT !.status = "warning_no_valid"]
            ELSE [status |-> "metrics", highest |-> IdxMax(valid),
                  lowest |-> IdxMin(valid), mean |-> AggMean(valid, "m2")]

\* The lexicographic rank sorted() and groupby give the project names.
ProjectRank(p) == CASE p = "A" -> 1 [] p = "B" -> 2

\* The division without the replacement of a zero mean size: x / 0 is inf.
PricePerM2NoReplace(avgPrice, avgSize) ==
    Frac(avgPrice.n * avgSize.d, avgPrice.d * avgSize.n)

\* Average Price / Average Size.replace(0, np.nan): (sa/na) / (st/nt).
PricePerM2(avgPrice, avgSize) ==
    IF avgSize.n = 0 \/ IsNaNFrac(avgSize) \/ IsNaNFrac(avgPrice) THEN NaNFrac
    ELSE Frac(avgPrice.n * avgSize.d, avgPrice.d * avgSize.n)

\* project_sales before it is sorted: one row per project, in name order.
ProjectGroups(rows) ==
    LET ranks == SortedSeq({ ProjectRank(p) : p \in Range(Column(rows, "project")) })
        grp(k) == SelectSeq(rows, LAMBDA r : ProjectRank(r.project) = k)
        one(g) ==
            [project |-> g[1].project,
             total |-> AggSum(g, "amount"),
             avgPrice |-> AggMean(g, "amount"),
             units |-> AggCount(g, "amount"),
             avgSize |-> AggMean(g, "tc"),
             ppm |-> PricePerM2(AggMean(g, "amount"), AggMean(g, "tc"))]
    IN [i \in 1..Len(ranks) |-> one(grp(ranks[i]))]

\* sort_values('Total Sales', ascending=False): every order of the rows that is
\* descending by total (the sort is not stable: equal totals come in any order).
SortedByTotalDesc(s) ==
    LET n == Len(s)
        perms == { p \in [1..n -> 1..n] : \A i, j \in 1..n : i # j => p[i] # p[j] }
    IN { [i \in 1..n |-> s[p[i]]] : p \in
           { q \in perms : \A i \in 1..(n - 1) : s[q[i]].total >= s[q[i + 1]].total } }

\* monthly_price_m2: the mean of m2 per month of Contract Date.
MonthlyPriceM2(rows) ==
    LET keys == SortedSeq({ StrftimeYM(r.date) : r \in Range(rows) })
        grp(k) == SelectSeq(rows, LAMBDA r : StrftimeYM(r.date) = k)
    IN [i \in 1..Len(keys) |-> [month |-> keys[i], mean |-> AggMean(grp(keys[i]), "m2")]]

\* filtered_data.dropna(subset=['Latitude', 'Longitude'])
MapData(rows) == SelectSeq(rows, LAMBDA r : r.lat # NaN /\ r.lon # NaN)

LocationKey(r) == ProjectRank(r.project) * 1000000 + r.lat * 1000 + r.lon

\* project_locations: one row per (Project, Latitude, Longitude), in key order.
\* (The cosmetic marker size sqrt(total)/100 is not kept.)
ProjectLocations(rows) ==
    LET keys == SortedSeq({ LocationKey(r) : r \in Range(rows) })
        grp(k) == SelectSeq(rows, LAMBDA r : LocationKey(r) = k)
        one(g) ==
            [project |-> g[1].project, lat |-> g[1].lat, lon |-> g[1].lon,
             total |-> AggSum(g, "amount"), units |-> AggCount(g, "amount"),
             m2 |-> AggMean(g, "m2")]
    IN [i \in 1..Len(keys) |-> one(grp(keys[i]))]

\* The map block of tab3.
LocationMap(f) ==
    IF f.rows = <<>> THEN Warning
    ELSE IF MapData(f.rows) = <<>> THEN [status |-> "info_no_location", rows |-> <<>>]
    ELSE [status |-> "map", rows |-> ProjectLocations(MapData(f.rows))]

\* ---------------------------------------------------------------- state
VARIABLES
    file,              \* data.csv
    cache,             \* st.cache_data's entry for load_data: <<>> or <<dataset>>
    parses,            \* how many times the body of load_data has run
    loaded,            \* the dataset the first returning call of load_data gave
    pc,                \* where the script run is
    error,             \* the exception that ended the run, "none" otherwise
    data,              \* the script's  data
    widgets,           \* the session's widget values (the filter criteria)
    filtered,          \* filtered_data
    monthly_sales,     \* tab1
    stats,             \* tab2, the price-per-m2 statistics
    project_sales,     \* tab2
    monthly_price_m2,  \* tab2
    location_map,      \* tab3
    prev               \* the row labels of the subset the previous run produced

vars == <<file, cache, parses, loaded, pc, error, data, widgets, filtered,
          monthly_sales, stats, project_sales, monthly_price_m2, location_map, prev>>

views == <<monthly_sales, stats, project_sales, monthly_price_m2, location_map>>

Init ==
    /\ file \in CsvFiles
    /\ cache = <<>>
    /\ parses = 0
    /\ loaded = NoData
    /\ pc = "load"
    /\ error = "none"
    /\ data = NoData
    /\ widgets = NoWidgets
    /\ filtered = NoData
    /\ monthly_sales = NoView
    /\ stats = NoStats
    /\ project_sales = NoView
    /\ monthly_price_m2 = NoView
    /\ location_map = NoView
    /\ prev = <<>>

\* A filter that narrows the subset the run before produced.
FilterSourcePrev ==
    IF prev = <<>> THEN data
    ELSE [data EXCEPT !.rows = SelectSeq(data.rows, LAMBDA r : r.idx \in Range(prev))]

\* The table the mask is taken from and indexes: the script's data.
FilterSource == data

\* An m2 assignment that reaches data, as if the filtered table were a view of it.
DataAfterCoerceAliased(d) == CoerceM2(d)

\* What the m2 assignment to the filtered table leaves of data: data[mask] is a
\* copy, the assignment does not reach data.
DataAfterCoerce(d) == d

\* data = load_data(): a cache hit hands out a copy of the cached dataset; a
\* miss runs the body, and caches what it returns (an exception is not cached).
Load ==
    /\ pc = "load"
    /\ IF CacheHit(cache)
       THEN /\ data' = cache[1]
            /\ pc' = "sidebar"
            /\ UNCHANGED <<cache, parses, loaded, error>>
       ELSE /\ parses < MaxParses
            /\ parses' = parses + 1
            /\ LET out == LoadData(file)
               IN IF out.error # "none"
                  THEN /\ error' = out.error
                       /\ pc' = "aborted"
                       /\ UNCHANGED <<cache, loaded, data>>
                  ELSE /\ cache' = <<out.value>>
                       /\ data' = out.value
                       /\ loaded' = IF loaded = NoData THEN out.value ELSE loaded
                       /\ pc' = "sidebar"
                       /\ UNCHANGED error
    /\ UNCHANGED <<file, widgets, filtered, views, prev>>

\* The sidebar: the widgets take their defaults on the session's first run and
\* keep the user's values afterwards.
Sidebar ==
    /\ pc = "sidebar"
    /\ IF DateInputRaises(data)
       THEN /\ error' = "StreamlitAPIException"
            /\ pc' = "aborted"
            /\ UNCHANGED widgets
       ELSE /\ widgets' = IF widgets.set THEN widgets ELSE DefaultWidgets(data)
            /\ pc' = "filter"
            /\ UNCHANGED error
    /\ UNCHANGED <<file, cache, parses, loaded, data, filtered, views, prev>>

ApplyFilters ==
    /\ pc = "filter"
    /\ filtered' = FilteredData(FilterSource, widgets)
    /\ pc' = "coerce"
    /\ UNCHANGED <<file, cache, parses, loaded, error, data, widgets, views, prev>>

Coerce ==
    /\ pc = "coerce"
    /\ filtered' = CoerceM2(filtered)
    /\ data' = DataAfterCoerce(data)
    /\ pc' = "tab1"
    /\ UNCHANGED <<file, cache, parses, loaded, error, widgets, views, prev>>

Tab1 ==
    /\ pc = "tab1"
    /\ monthly_sales' = MonthlySalesView(filtered)
    /\ pc' = "tab2_stats"
    /\ UNCHANGED <<file, cache, parses, loaded, error, data, widgets, filtered,
                   stats, project_sales, monthly_price_m2, location_map, prev>>

Tab2Stats ==
    /\ pc = "tab2_stats"
    /\ stats' = PriceStats(filtered)
    /\ pc' = "tab2_projects"
    /\ UNCHANGED <<file, cache, parses, loaded, error, data, widgets, filtered,
                   monthly_sales, project_sales, monthly_price_m2, location_map, prev>>

Tab2Projects ==
    /\ pc = "tab2_projects"
    /\ IF filtered.rows = <<>>
       THEN /\ project_sales' = Warning
            /\ monthly_price_m2' = Warning
       ELSE /\ \E s \in SortedByTotalDesc(ProjectGroups(filtered.rows)) :
                  project_sales' = [status |-> "chart", rows |-> s]
            /\ monthly_price_m2' =
                  [status |-> "chart", rows |-> MonthlyPriceM2(filtered.rows)]
    /\ pc' = "tab3"
    /\ UNCHANGED <<file, cache, parses, loaded, error, data, widgets, filtered,
                   monthly_sales, stats, location_map, prev>>

Tab3 ==
    /\ pc = "tab3"
    /\ location_map' = LocationMap(filtered)
    /\ pc' = "done"
    /\ UNCHANGED <<file, cache, parses, loaded, error, data, widgets, filtered,
                   monthly_sales, stats, project_sales, monthly_price_m2, prev>>

\* A rerun starts the script afresh: nothing of the run before is kept but the
\* cache and the widget values.
FreshRun ==
    /\ pc' = "load"
    /\ error' = "none"
    /\ data' = NoData
    /\ filtered' = NoData
    /\ monthly_sales' = NoView
    /\ stats' = NoStats
    /\ project_sales' = NoView
    /\ monthly_price_m2' = NoView
    /\ location_map' = NoView

\* The user changes one widget, which reruns the script.
Interact ==
    /\ pc = "done"
    /\ \E w \in UserChanges(data, widgets) : widgets' = w
    /\ prev' = Column(filtered.rows, "idx")
    /\ FreshRun
    /\ UNCHANGED <<file, cache, parses, loaded>>

\* The page is opened anew (also after a run that ended in an exception): a new
\* session of the same process, with the widgets at their defaults.
NewSession ==
    /\ pc \in {"done", "aborted"}
    /\ widgets' = NoWidgets
    /\ prev' = IF pc = "done" THEN Column(filtered.rows, "idx") ELSE prev
    /\ FreshRun
    /\ UNCHANGED <<file, cache, parses, loaded>>

Next ==
    \/ Load
    \/ Sidebar
    \/ ApplyFilters
    \/ Coerce
    \/ Tab1
    \/ Tab2Stats
    \/ Tab2Projects
    \/ Tab3
    \/ Interact
    \/ NewSession

Spec == Init /\ [][Next]_vars

\* =============================================================== claims
AfterLoad == {"sidebar", "filter", "coerce", "tab1", "tab2_stats", "tab2_projects",
              "tab3", "done"}
AfterFilter == {"coerce", "tab1", "tab2_stats", "tab2_projects", "tab3", "done"}
AfterTab1 == {"tab2_stats", "tab2_projects", "tab3", "done"}
AfterStats == {"tab2_projects", "tab3", "done"}
AfterProjects == {"tab3", "done"}

RECURSIVE SumOver(_, _)
\* The sum of field f over a finite set of rows.
SumOver(S, f) ==
    IF S = {} THEN 0
    ELSE LET r == CHOOSE r \in S : TRUE IN r[f] + SumOver(S \ {r}, f)

\* Whether a row meets every criterion.
Satisfies(r, c) ==
    /\ c.start <= r.date /\ r.date <= c.end
    /\ r.amount # NaN /\ c.lo * 10 <= r.amount /\ r.amount <= c.hi * 10
    /\ (c.project = "All" \/ r.project = c.project)
    /\ (c.bedrooms = "All" \/ r.bedrooms = c.bedrooms)
    /\ (c.segment = "All" \/ r.segment = c.segment)

\* C1: the filtered subset is exactly the rows of the dataset that meet all the
\* criteria (dates and amounts in their inclusive ranges; project, bedrooms and
\* segment equal to the criterion unless it is "All"): none left out, none kept
\* wrongly, none twice, in the dataset's order.
C1_FilterExact ==
    pc \in AfterFilter =>
        /\ Range(filtered.rows) = { r \in Range(data.rows) : Satisfies(r, widgets) }
        /\ \A i, j \in 1..Len(filtered.rows) :
               i < j => filtered.rows[i].idx < filtered.rows[j].idx

\* A run whose project criterion is set and whose price range leaves out a row
\* of that project while another row is kept.
C1_Witness ==
    /\ pc = "done"
    /\ widgets.project # "All"
    /\ filtered.rows # <<>>
    /\ \E r \in Range(data.rows) :
           /\ r.project = widgets.project
           /\ r.amount # NaN
           /\ r.amount > widgets.hi * 10
    /\ \E r \in Range(data.rows) : r.project # widgets.project

\* C2: from the moment it is loaded, the script's dataset is the dataset
\* load_data returned, row for row and field for field (dtype included), at
\* every step of every run: filtering, the m2 coercion and the aggregations
\* change only the derived tables.
C2_DataNeverMutated ==
    pc \in AfterLoad => data = loaded /\ loaded # NoData

\* A later run has coerced the m2 column of a non-empty strict subset to
\* float64 while the dataset's column is int64.
C2_Witness ==
    /\ pc = "done"
    /\ prev # <<>>
    /\ data.m2dtype = "int64"
    /\ filtered.m2dtype = "float64"
    /\ filtered.rows # <<>>
    /\ Len(filtered.rows) < Len(data.rows)
    /\ location_map.status = "map"

\* C3: with an empty filtered subset every view gives its no-data notice and
\* the run ends without an exception; with a non-empty subset that has no
\* m2 value the statistics give their no-data notice, and with one that has no
\* coordinates the map gives its no-data notice.
C3_EmptyViews ==
    /\ (pc \in AfterFilter /\ filtered.rows = <<>>) =>
           /\ error = "none"
           /\ pc \in AfterTab1 => monthly_sales = Warning
           /\ pc \in AfterStats => stats.status = "warning"
           /\ pc \in AfterProjects =>
                  project_sales = Warning /\ monthly_price_m2 = Warning
           /\ pc = "done" => location_map = Warning
    /\ (pc \in AfterStats /\ filtered.rows # <<>>
          /\ \A r \in Range(filtered.rows) : r.m2 = NaN) =>
           error = "none" /\ stats.status = "warning_no_valid"
    /\ (pc = "done" /\ filtered.rows # <<>>
          /\ \A r \in Range(filtered.rows) : r.lat = NaN \/ r.lon = NaN) =>
           error = "none" /\ location_map.status = "info_no_location"

\* A run over a loaded dataset has ended with an empty subset.
C3_Witness ==
    /\ pc = "done"
    /\ data.rows # <<>>
    /\ filtered.rows = <<>>
    /\ location_map = Warning

\* A run has ended with a non-empty subset that has neither an m2 value nor
\* coordinates.
C3_WitnessNoValues ==
    /\ pc = "done"
    /\ filtered.rows # <<>>
    /\ stats.status = "warning_no_valid"
    /\ location_map.status = "info_no_location"

\* The rows of the filtered subset in a month, of a project, at a place.
InMonth(k) == { r \in Range(filtered.rows) : r.ym = k }
InProject(p) == { r \in Range(filtered.rows) : r.project = p }
AtPlace(g) ==
    { r \in Range(filtered.rows) :
        r.project = g.project /\ r.lat = g.lat /\ r.lon = g.lon }
WithM2(S) == { r \in S : r.m2 # NaN }

C4_TimelineAsComputed ==
    (pc \in AfterTab1 /\ filtered.rows # <<>>) =>
        LET t == monthly_sales.rows
        IN /\ monthly_sales.status = "chart"
           /\ { t[i].ym : i \in 1..Len(t) } = { r.ym : r \in Range(filtered.rows) }
           /\ \A i \in 1..(Len(t) - 1) : t[i].ym < t[i + 1].ym
           /\ \A i \in 1..Len(t) :
                  /\ t[i].amount = SumOver(InMonth(t[i].ym), "amount")
                  /\ t[i].units =
                       Cardinality({ r \in InMonth(t[i].ym) : r.unit # NA })

\* C5: the per-project rollup of a non-empty subset has exactly one row per
\* project of the subset; a project whose mean Total Covered is 0 has NaN as
\* price per m2, every other the mean amount over the mean Total Covered; the
\* rows are in descending order of total sales.
C5_ProjectRollup ==
    (pc \in AfterProjects /\ filtered.rows # <<>>) =>
        LET t == project_sales.rows
        IN /\ project_sales.status = "chart"
           /\ { t[i].project : i \in 1..Len(t) }
                = { r.project : r \in Range(filtered.rows) }
           /\ \A i, j \in 1..Len(t) : i # j => t[i].project # t[j].project
           /\ \A i \in 1..(Len(t) - 1) : t[i].total >= t[i + 1].total
           /\ \A i \in 1..Len(t) :
                  LET G == InProject(t[i].project)
                  IN /\ t[i].total = SumOver(G, "amount")
                     /\ t[i].units = Cardinality(G)
                     /\ IF SumOver(G, "tc") = 0
                        THEN IsNaNFrac(t[i].ppm)
                        ELSE /\ t[i].ppm.d # 0
                             \* ppm = (sum amount / |G|) / (sum tc / |G|)
                             /\ t[i].ppm.n * SumOver(G, "tc") * Cardinality(G)
                                  = t[i].ppm.d * SumOver(G, "amount") * Cardinality(G)

\* The rollup holds a project with a zero mean Total Covered (price NaN) next to
\* a project with a price.
C5_Witness ==
    /\ pc = "done"
    /\ project_sales.status = "chart"
    /\ \E i, j \in 1..Len(project_sales.rows) :
           /\ IsNaNFrac(project_sales.rows[i].ppm)
           /\ project_sales.rows[j].ppm.d # 0

\* C6: every m2 statistic leaves the rows with a missing m2 out: the highest
\* and lowest rows and the mean of the statistics block are taken among the
\* rows with an m2, and the monthly and per-place means are the sum over the
\* group's rows with an m2 divided by their number, NaN when there is none.
C6_M2SkipsMissing ==
    /\ (pc \in AfterStats /\ stats.status = "metrics") =>
           LET V == WithM2(Range(filtered.rows))
           IN /\ \E r \in V : r.idx = stats.highest /\ \A q \in V : q.m2 <= r.m2
              /\ \E r \in V : r.idx = stats.lowest /\ \A q \in V : q.m2 >= r.m2
              /\ stats.mean = Frac(SumOver(V, "m2"), Cardinality(V))
    /\ (pc \in AfterStats /\ filtered.rows # <<>>) =>
           (stats.status = "metrics" <=> WithM2(Range(filtered.rows)) # {})
    /\ (pc \in AfterProjects /\ monthly_price_m2.status = "chart") =>
           \A i \in 1..Len(monthly_price_m2.rows) :
               LET V == WithM2(InMonth(monthly_price_m2.rows[i].month))
               IN monthly_price_m2.rows[i].mean
                    = IF V = {} THEN NaNFrac
                      ELSE Frac(SumOver(V, "m2"), Cardinality(V))
    /\ (pc = "done" /\ location_map.status = "map") =>
           \A i \in 1..Len(location_map.rows) :
               LET V == WithM2(AtPlace(location_map.rows[i]))
               IN location_map.rows[i].m2
                    = IF V = {} THEN NaNFrac
                      ELSE Frac(SumOver(V, "m2"), Cardinality(V))

\* A month of the subset holds two rows with an m2 and a row without, and a
\* place of the map holds a row with an m2 and a row without.
C6_Witness ==
    /\ pc = "done"
    /\ stats.status = "metrics"
    /\ \E i \in 1..Len(monthly_price_m2.rows) :
           LET G == InMonth(monthly_price_m2.rows[i].month)
           IN Cardinality(WithM2(G)) >= 2 /\ WithM2(G) # G
    /\ location_map.status = "map"
    /\ \E i \in 1..Len(location_map.rows) :
           LET G == AtPlace(location_map.rows[i])
           IN WithM2(G) # {} /\ WithM2(G) # G

MissingCell(c) == c = <<>>
UnparseableCell(c) == c # <<>> /\ ~IsNumeric(StripCommas(c))

\* C7: a Contract Amount cell that is missing or unparseable aborts the load
\* (no dataset is returned, no amount is ever NaN); an unparseable m2 cell is
\* NaN in its row of the returned dataset, whose other cells are as read.
C7_LoadFailureClasses ==
    /\ (parses > 0 /\ \E i \in 1..Len(file) :
                          MissingCell(file[i].amount) \/ UnparseableCell(file[i].amount)) =>
           cache = <<>> /\ pc \in {"aborted", "load"}
    /\ cache # <<>> =>
           /\ Len(cache[1].rows) = Len(file)
           /\ \A i \in 1..Len(file) :
                  /\ cache[1].rows[i].amount # NaN
                  /\ UnparseableCell(file[i].m2) => cache[1].rows[i].m2 = NaN
                  /\ cache[1].rows[i].project = file[i].project
                  /\ cache[1].rows[i].unit = file[i].unit

\* What the loader does: an unparseable amount (or a column read as numbers,
\* on which .str raises) aborts the load; a missing amount among text amounts
\* is stored as NaN; an unparseable m2 cell is NaN and the load goes on.
C7_LoadAsComputed ==
    /\ (parses > 0 /\ \E i \in 1..Len(file) : UnparseableCell(file[i].amount)) =>
           cache = <<>> /\ pc \in {"aborted", "load"}
    /\ cache # <<>> =>
           /\ Len(cache[1].rows) = Len(file)
           /\ \A i \in 1..Len(file) :
                  /\ cache[1].rows[i].amount = NaN <=> MissingCell(file[i].amount)
                  /\ UnparseableCell(file[i].m2) => cache[1].rows[i].m2 = NaN
                  /\ cache[1].rows[i].project = file[i].project
                  /\ cache[1].rows[i].unit = file[i].unit

\* C8 as stated: the input is parsed at most once over all the runs, and every
\* call of load_data returns the dataset the first call returned.
C8_ParsedAtMostOnce ==
    /\ parses <= 1
    /\ pc = "sidebar" => data = loaded

\* C8, amended: once load_data has returned a dataset its body never runs
\* again, the cache keeps that dataset, and every later call returns it (an
\* input on which load_data raises is not cached: it is parsed on every run).
C8_CachedLoad ==
    /\ cache # <<>> => parses = 1 /\ cache = <<loaded>>
    /\ pc = "sidebar" => cache # <<>> /\ data = loaded

\* A later run's call has been answered from the cache.
C8_Witness ==
    /\ pc = "sidebar"
    /\ prev # <<>>
    /\ widgets.set
    /\ parses = 1

\* C9: the subset of the current run is what the current criteria select from
\* the dataset load_data first returned, whatever the run before selected.
C9_FilterIsPure ==
    pc \in AfterFilter =>
        /\ { r.idx : r \in Range(filtered.rows) }
             = { r.idx : r \in { q \in Range(loaded.rows) : Satisfies(q, widgets) } }
        /\ \A r \in Range(filtered.rows) : r \in Range(loaded.rows)
        /\ Len(filtered.rows) = Cardinality(Range(filtered.rows))

\* The run before produced a non-empty subset, and the current subset holds a
\* row that subset lacked and lacks a row it held.
C9_Witness ==
    /\ pc = "done"
    /\ prev # <<>>
    /\ \E r \in Range(filtered.rows) : r.idx \notin Range(prev)
    /\ \E i \in Range(prev) : i \notin { r.idx : r \in Range(filtered.rows) }

\* C10: with the slider at its initial value (int(min), int(max)) the price
\* criterion keeps every row that has an amount.
C10_InitialSliderKeepsAll ==
    (pc \in AfterFilter /\ widgets.lo = MinPrice(data) /\ widgets.hi = MaxPrice(data)) =>
        \A r \in Range(data.rows) :
            r.amount # NaN =>
                widgets.lo * 10 <= r.amount /\ r.amount <= widgets.hi * 10

\* What holds of the initial slider: no row lies below it, and a row lies above
\* it only by the fraction int() cut off the largest amount.
C10_InitialSliderAsComputed ==
    (pc \in AfterFilter /\ widgets.lo = MinPrice(data) /\ widgets.hi = MaxPrice(data)) =>
        \A r \in Range(data.rows) :
            r.amount # NaN =>
                widgets.lo * 10 <= r.amount /\ r.amount < (widgets.hi + 1) * 10

\* C11: for every loaded dataset the default start date, the later of the
\* dataset's first date and 1 January 2022, lies within the picker's bounds
\* [first date, last date] and is not later than the default end date, the
\* dataset's last date.
C11_DefaultStartInBounds ==
    cache # <<>> =>
        LET d == cache[1]
        IN /\ MinDateDataset(d) <= DefaultStartDate(d)
           /\ DefaultStartDate(d) <= MaxDate(d)
           /\ DefaultStartDate(d) <= DefaultWidgets(d).end

\* What holds of the default start date: it is never before the dataset's
\* first date, and it is within the bounds exactly when the dataset's last
\* date is not before 1 January 2022; the run goes past the sidebar exactly
\* then.
C11_DefaultStartAsComputed ==
    cache # <<>> =>
        LET d == cache[1]
        IN /\ MinDateDataset(d) <= DefaultStartDate(d)
           /\ DefaultStartDate(d) <= MaxDate(d) <=> MaxDate(d) >= DefaultMinDate
           /\ pc \in AfterFilter => MaxDate(d) >= DefaultMinDate
           /\ (pc = "aborted" /\ error = "StreamlitAPIException")
                => MaxDate(d) < DefaultMinDate

====
